---- MODULE Spec2Model ----
(***************************************************************************)
(* Hive ad agent: the resource-governed request engine of src/ai_engine.py *)
(* (ResourceTracker, AIEngine.generate and generate_json), and the hive of *)
(* src/agent_base.py and src/orchestration/queen_bee.py (workers, registry *)
(* and message routing), and the chat sessions of                          *)
(* src/ai/enhanced_ai_engine.py.                                           *)
(*                                                                         *)
(* Time is counted in whole seconds (datetime.now() truncated to the       *)
(* second).  Money is counted in units of 0.00000005 USD, the largest unit *)
(* in which every price of the source is a whole number:                   *)
(*   0.03    USD per 1000 tokens (check_limits estimate) = 600 per token   *)
(*   0.00015 USD per 1000 tokens (gpt-4o-mini input)     =   3 per token   *)
(*   0.0006  USD per 1000 tokens (gpt-4o-mini output)    =  12 per token   *)
(*   0.003   USD per 1000 tokens (claude input)          =  60 per token   *)
(*   0.015   USD per 1000 tokens (claude output)         = 300 per token   *)
(*   0.0001  USD (the 4th decimal of get_stats)          = 2000            *)
(* Sums of money are exact here; the source adds binary floats.            *)
(***************************************************************************)
EXTENDS Integers, Sequences, FiniteSets, TLC

VARIABLES
    now,                      \* datetime.now(), in seconds
    max_requests_per_minute,  \* ResourceTracker.max_requests_per_minute (from the environment)
    provider,                 \* AIEngine.provider
    client,                   \* TRUE iff the selected provider's client was initialized
    tracker,                  \* the ResourceTracker's mutable fields
    pc,                       \* per caller: where its generate call stands
    max_tokens,               \* per caller: max_tokens of the generate call in progress
    out,                      \* per caller: what its last generate call gave back
    events,                   \* per caller: what its current generate call did, in order
    admitLog,                 \* history: times, in the last 60 s, at which check_limits allowed
    recordLog,                \* history: the record_usage calls of the last 3600 s, in order
    ledger,                   \* history: sums of what was passed to record_usage
    calls,                    \* history: number of generate calls started
    ticks,                    \* history: number of clock advances
    json_response,            \* generate_json: the Response its generate call returned
    json_result,              \* generate_json: what it gave back to its caller
    worker_bees,              \* QueenBee.worker_bees: the registered ids, in insertion order
    bees,                     \* per worker: state, counters and on_message_send
    stack,                    \* the receive_message calls in progress, the outermost first
    route,                    \* the route_message call made from outside: status, and how many
    routed,                   \* history: the last message handed to route_message, and to whom
    queen,                    \* QueenBee.workflows_completed and workflows_failed
    workflow,                 \* the execute_workflow call: where it stands, its locals, its
                              \* last result, and (history) the workers as it found them
    clock,                    \* datetime.now() of the hive, in units of the workflow's wait (0.5 s)
    conversations,            \* EnhancedAIEngine.conversations: per session, its memory's turns
    chat                      \* the chat call: where it stands, its arguments and locals, the
                              \* messages of its provider request, and what it gave back

engineVars == <<now, max_requests_per_minute, provider, client, tracker, pc, max_tokens,
                out, events, admitLog, recordLog, ledger, calls, ticks>>
jsonVars == <<json_response, json_result>>
hiveVars == <<worker_bees, bees, stack, route, routed>>
wfVars == <<queen, workflow, clock>>
chatVars == <<conversations, chat>>
vars == <<engineVars, jsonVars, hiveVars, wfVars, chatVars>>

-----------------------------------------------------------------------------
(* Bounds of the model *)

MaxCalls == 2
MaxTicks == 2
MaxRpm == 1
MaxPrompt == 1
MaxReplyLen == 7
MaxRoutes == 2
MaxWorkflows == 2

(* The ceilings of ResourceTracker.__init__, scaled down *)
MaxTokensPerRequest == 2
MaxTokensPerHour == 5
MaxCostPerHour == 1850

(* Program constants *)
DaySeconds == 86400
MinuteWindow == 60
HourWindow == 3600
EstimateRate == 600
OpenAIInputRate == 3
OpenAIOutputRate == 12
AnthropicInputRate == 60
AnthropicOutputRate == 300
StatsQuantum == 2000

\* AI_PROVIDER values with a client: "openai", and anything else is Anthropic
Providers == {"openai", "anthropic"}
Callers == {"a", "b"}
Main == "a"
TickSteps == {59, 60, 3541, 86400}
\* Clock advances between the steps of interleaved calls
RaceTickSteps == {59}
None == "<None>"
\* generate's max_tokens argument: absent (None), or a number
MaxTokensArgs ==
    {[given |-> FALSE, value |-> 0]} \cup {[given |-> TRUE, value |-> n] : n \in {1, 3}}
Contents == {"text", "", None}
FaultTexts == {"timeout", ""}

-----------------------------------------------------------------------------
(* ResourceTracker *)

\* timedelta.seconds: the seconds field of a normalized timedelta, 0..86399
Seconds(d) == d % DaySeconds

reset_if_needed(tr) ==
    LET kept == SelectSeq(tr.minute_requests, LAMBDA t : Seconds(now - t) < MinuteWindow)
    IN  IF Seconds(now - tr.hour_start) >= HourWindow
        THEN [tr EXCEPT !.minute_requests = kept, !.hour_tokens = 0,
                        !.hour_cost = 0, !.hour_start = now]
        ELSE [tr EXCEPT !.minute_requests = kept]

\* The reasons check_limits gives; tr is the tracker after reset_if_needed
RateReason(tr) ==
    "Rate limit reached. Wait "
        \o ToString(MinuteWindow - Seconds(now - tr.minute_requests[1])) \o "s"
TokenReason == "Token limit reached (" \o ToString(MaxTokensPerHour) \o "/hour)"
CostReason == "Cost limit reached ($" \o ToString(MaxCostPerHour) \o "/hour)"

Verdict(tr, raised, allowed, reason) ==
    [tracker |-> tr, raised |-> raised, allowed |-> allowed, reason |-> reason]

\* check_limits with a fault: the token test forgets the estimate
check_limits_ignoring_estimate(tr, estimated_tokens) ==
    LET tr1 == reset_if_needed(tr)
        estimated_cost == estimated_tokens * EstimateRate
    IN  IF Len(tr1.minute_requests) >= max_requests_per_minute
        THEN IF tr1.minute_requests = <<>>
             THEN Verdict(tr1, TRUE, FALSE, "list index out of range")
             ELSE Verdict(tr1, FALSE, FALSE, RateReason(tr1))
        ELSE IF tr1.hour_tokens > MaxTokensPerHour
        THEN Verdict(tr1, FALSE, FALSE, TokenReason)
        ELSE IF tr1.hour_cost + estimated_cost > MaxCostPerHour
        THEN Verdict(tr1, FALSE, FALSE, CostReason)
        ELSE Verdict(tr1, FALSE, TRUE, "OK")

\* check_limits with a fault: the cost test comes before the token test
check_limits_cost_first(tr, estimated_tokens) ==
    LET tr1 == reset_if_needed(tr)
        estimated_cost == estimated_tokens * EstimateRate
    IN  IF Len(tr1.minute_requests) >= max_requests_per_minute
        THEN IF tr1.minute_requests = <<>>
             THEN Verdict(tr1, TRUE, FALSE, "list index out of range")
             ELSE Verdict(tr1, FALSE, FALSE, RateReason(tr1))
        ELSE IF tr1.hour_cost + estimated_cost > MaxCostPerHour
        THEN Verdict(tr1, FALSE, FALSE, CostReason)
        ELSE IF tr1.hour_tokens + estimated_tokens > MaxTokensPerHour
        THEN Verdict(tr1, FALSE, FALSE, TokenReason)
        ELSE Verdict(tr1, FALSE, TRUE, "OK")

\* check_limits with a fault: every check is counted as a request of the minute
check_limits_counting(tr, estimated_tokens) ==
    LET tr0 == reset_if_needed(tr)
        tr1 == [tr0 EXCEPT !.minute_requests = Append(@, now)]
        estimated_cost == estimated_tokens * EstimateRate
    IN  IF Len(tr1.minute_requests) > max_requests_per_minute
        THEN Verdict(tr1, FALSE, FALSE, RateReason(tr1))
        ELSE IF tr1.hour_tokens + estimated_tokens > MaxTokensPerHour
        THEN Verdict(tr1, FALSE, FALSE, TokenReason)
        ELSE IF tr1.hour_cost + estimated_cost > MaxCostPerHour
        THEN Verdict(tr1, FALSE, FALSE, CostReason)
        ELSE Verdict(tr1, FALSE, TRUE, "OK")

\* check_limits with a fault: the calls in flight are counted as requests of the
\* minute, so that a second caller is held back until the first has recorded
check_limits_reserving(tr, estimated_tokens) ==
    LET tr1 == reset_if_needed(tr)
        in_flight == Cardinality({c \in Callers : pc[c] = "awaiting"})
        estimated_cost == estimated_tokens * EstimateRate
    IN  IF Len(tr1.minute_requests) + in_flight >= max_requests_per_minute
        THEN IF tr1.minute_requests = <<>>
             THEN IF in_flight = 0
                  THEN Verdict(tr1, TRUE, FALSE, "list index out of range")
                  ELSE Verdict(tr1, FALSE, FALSE, "Rate limit reached.")
             ELSE Verdict(tr1, FALSE, FALSE, RateReason(tr1))
        ELSE IF tr1.hour_tokens + estimated_tokens > MaxTokensPerHour
        THEN Verdict(tr1, FALSE, FALSE, TokenReason)
        ELSE IF tr1.hour_cost + estimated_cost > MaxCostPerHour
        THEN Verdict(tr1, FALSE, FALSE, CostReason)
        ELSE Verdict(tr1, FALSE, TRUE, "OK")

\* What check_limits gives back: raised (IndexError on minute_requests[0]),
\* or the pair (allowed, reason).
check_limits(tr, estimated_tokens) ==
    LET tr1 == reset_if_needed(tr)
        estimated_cost == estimated_tokens * EstimateRate
    IN  IF Len(tr1.minute_requests) >= max_requests_per_minute
        THEN IF tr1.minute_requests = <<>>
             THEN Verdict(tr1, TRUE, FALSE, "list index out of range")
             ELSE Verdict(tr1, FALSE, FALSE, RateReason(tr1))
        ELSE IF tr1.hour_tokens + estimated_tokens > MaxTokensPerHour
        THEN Verdict(tr1, FALSE, FALSE, TokenReason)
        ELSE IF tr1.hour_cost + estimated_cost > MaxCostPerHour
        THEN Verdict(tr1, FALSE, FALSE, CostReason)
        ELSE Verdict(tr1, FALSE, TRUE, "OK")

\* record_usage with a fault: the lifetime token total is not updated
record_usage_hour_only(tr, tokens, cost) ==
    [tr EXCEPT !.minute_requests = Append(@, now),
               !.hour_tokens = @ + tokens,
               !.hour_cost = @ + cost,
               !.total_requests = @ + 1,
               !.total_cost = @ + cost]

record_usage(tr, tokens, cost) ==
    [tr EXCEPT !.minute_requests = Append(@, now),
               !.hour_tokens = @ + tokens,
               !.hour_cost = @ + cost,
               !.total_requests = @ + 1,
               !.total_tokens = @ + tokens,
               !.total_cost = @ + cost]

\* round(x, 4): to the nearest multiple of 0.0001, ties to the even multiple
Round4(c) ==
    LET q == c \div StatsQuantum
        r == c % StatsQuantum
    IN  IF 2 * r > StatsQuantum \/ (2 * r = StatsQuantum /\ q % 2 = 1)
        THEN (q + 1) * StatsQuantum
        ELSE q * StatsQuantum

get_stats(tr) ==
    [total |-> [requests |-> tr.total_requests, tokens |-> tr.total_tokens,
                cost |-> Round4(tr.total_cost)],
     current_hour |-> [tokens |-> tr.hour_tokens, cost |-> Round4(tr.hour_cost)],
     current_minute |-> [requests |-> Len(tr.minute_requests)]]

-----------------------------------------------------------------------------
(* AIEngine *)

AIResponse(content, tokens_used, cost_usd, prov, success, error) ==
    [content |-> content, tokens_used |-> tokens_used, cost_usd |-> cost_usd,
     provider |-> prov, success |-> success, error |-> error]

Failure(error) == AIResponse("", 0, 0, provider, FALSE, error)

Returned(r) == [kind |-> "response", response |-> r]
Raised(e) == [kind |-> "raised", response |-> Failure(e)]
NoOutcome == [kind |-> "none", response |-> Failure(None)]

InputRate == IF provider = "openai" THEN OpenAIInputRate ELSE AnthropicInputRate
OutputRate == IF provider = "openai" THEN OpenAIOutputRate ELSE AnthropicOutputRate
NotInitialized ==
    IF provider = "openai" THEN "OpenAI client not initialized"
    ELSE "Anthropic client not initialized"

\* What the provider's client can do with an issued call whose ceiling is mt
ProviderOutcomes(mt) ==
    {[kind |-> "fault", text |-> x, prompt |-> 0, completion |-> 0, content |-> None] :
        x \in FaultTexts}
    \cup {[kind |-> k, text |-> "", prompt |-> p, completion |-> c, content |-> None] :
        k \in {"no_usage", "no_choices"}, p \in {MaxPrompt}, c \in {mt}}
    \cup {[kind |-> "reply", text |-> "", prompt |-> p, completion |-> c, content |-> "text"] :
        p \in {0, MaxPrompt}, c \in {0, mt}}
    \cup {[kind |-> "reply", text |-> "", prompt |-> MaxPrompt, completion |-> mt, content |-> x] :
        x \in Contents}

\* read_reply with a fault: only the completion tokens are recorded
read_reply_completion_only(tr, r) ==
    LET tokens_used == r.prompt + r.completion
        total_cost == r.prompt * InputRate + r.completion * OutputRate
        recorded == record_usage(tr, r.completion, total_cost)
        rec == [e |-> "record", tokens |-> r.completion, cost |-> total_cost]
        ret == [e |-> "return", tokens |-> 0, cost |-> 0]
    IN  CASE r.kind = "fault" ->
                [tracker |-> tr, out |-> Returned(Failure(r.text)), events |-> <<ret>>]
          [] r.kind = "no_usage" ->
                [tracker |-> tr,
                 out |-> Returned(Failure("'NoneType' object has no attribute")),
                 events |-> <<ret>>]
          [] r.kind = "no_choices" ->
                [tracker |-> recorded,
                 out |-> Returned(Failure("list index out of range")),
                 events |-> <<rec, ret>>]
          [] OTHER ->
                [tracker |-> recorded,
                 out |-> Returned(AIResponse(r.content, tokens_used, total_cost,
                                             provider, TRUE, None)),
                 events |-> <<rec, ret>>]

\* _openai_generate / _anthropic_generate from the reply on, inside generate's try:
\* the tracker, the outcome and the events that follow the reply r
read_reply(tr, r) ==
    LET tokens_used == r.prompt + r.completion
        total_cost == r.prompt * InputRate + r.completion * OutputRate
        recorded == record_usage(tr, tokens_used, total_cost)
        rec == [e |-> "record", tokens |-> tokens_used, cost |-> total_cost]
        ret == [e |-> "return", tokens |-> 0, cost |-> 0]
    IN  CASE r.kind = "fault" ->
                [tracker |-> tr, out |-> Returned(Failure(r.text)), events |-> <<ret>>]
          [] r.kind = "no_usage" ->
                [tracker |-> tr,
                 out |-> Returned(Failure("'NoneType' object has no attribute")),
                 events |-> <<ret>>]
          [] r.kind = "no_choices" ->
                [tracker |-> recorded,
                 out |-> Returned(Failure("list index out of range")),
                 events |-> <<rec, ret>>]
          [] OTHER ->
                [tracker |-> recorded,
                 out |-> Returned(AIResponse(r.content, tokens_used, total_cost,
                                             provider, TRUE, None)),
                 events |-> <<rec, ret>>]

Ev(e) == [e |-> e, tokens |-> 0, cost |-> 0]

\* History: the record_usage calls among the events es, stamped with the time
Recorded(es) ==
    LET recs == SelectSeq(es, LAMBDA x : x.e = "record")
    IN  [i \in 1..Len(recs) |-> [time |-> now, tokens |-> recs[i].tokens, cost |-> recs[i].cost]]

RECURSIVE Booked(_, _, _)
Booked(l, recs, estimate) ==
    IF recs = <<>> THEN l
    ELSE Booked([l EXCEPT !.requests = @ + 1,
                          !.tokens = @ + recs[1].tokens,
                          !.cost = @ + recs[1].cost,
                          !.hour_tokens = @ + recs[1].tokens,
                          !.hour_cost = @ + recs[1].cost,
                          !.overrun = @ \/ recs[1].tokens > estimate],
                Tail(recs), estimate)

\* The providers on which caller c's current generate call was attempted:
\* generate dispatches on self.provider alone, once, after check_limits allowed
Attempted(c) ==
    IF Len(events[c]) >= 1 /\ events[c][1].e = "admit" THEN {provider} ELSE {}

\* generate, up to its first suspension (the provider call) or its return
Generate(c, arg) ==
    /\ pc[c] # "awaiting"
    /\ calls < MaxCalls
    /\ calls' = calls + 1
    /\ LET mt == IF arg.given THEN arg.value ELSE MaxTokensPerRequest
           chk == check_limits(tracker, mt)
       IN  /\ tracker' = chk.tracker
           /\ max_tokens' = [max_tokens EXCEPT ![c] = mt]
           /\ ledger' = IF chk.tracker.hour_start # tracker.hour_start
                        THEN [ledger EXCEPT !.hour_tokens = 0, !.hour_cost = 0]
                        ELSE ledger
           /\ admitLog' = IF chk.allowed THEN Append(admitLog, now) ELSE admitLog
           /\ CASE chk.raised ->
                     /\ pc' = [pc EXCEPT ![c] = "done"]
                     /\ out' = [out EXCEPT ![c] = Raised(chk.reason)]
                     /\ events' = [events EXCEPT ![c] = <<Ev("raise")>>]
                [] ~chk.raised /\ ~chk.allowed ->
                     /\ pc' = [pc EXCEPT ![c] = "done"]
                     /\ out' = [out EXCEPT ![c] =
                                   Returned(Failure("Resource limit: " \o chk.reason))]
                     /\ events' = [events EXCEPT ![c] = <<Ev("reject"), Ev("return")>>]
                [] chk.allowed /\ ~client ->
                     /\ pc' = [pc EXCEPT ![c] = "done"]
                     /\ out' = [out EXCEPT ![c] = Returned(Failure(NotInitialized))]
                     /\ events' = [events EXCEPT ![c] = <<Ev("admit"), Ev("return")>>]
                [] OTHER ->
                     /\ pc' = [pc EXCEPT ![c] = "awaiting"]
                     /\ out' = [out EXCEPT ![c] = NoOutcome]
                     /\ events' = [events EXCEPT ![c] = <<Ev("admit"), Ev("call")>>]
    /\ UNCHANGED <<now, max_requests_per_minute, provider, client, recordLog, ticks>>
    /\ UNCHANGED <<jsonVars, hiveVars, wfVars>>

\* generate, from the provider's reply to its return
ProviderReply(c, r) ==
    /\ pc[c] = "awaiting"
    /\ LET got == read_reply(tracker, r)
       IN  /\ tracker' = got.tracker
           /\ out' = [out EXCEPT ![c] = got.out]
           /\ events' = [events EXCEPT ![c] = @ \o got.events]
           /\ recordLog' = recordLog \o Recorded(got.events)
           /\ ledger' = Booked(ledger, Recorded(got.events), max_tokens[c])
    /\ pc' = [pc EXCEPT ![c] = "done"]
    /\ max_tokens' = [max_tokens EXCEPT ![c] = 0]
    /\ UNCHANGED <<now, max_requests_per_minute, provider, client, admitLog, calls, ticks>>
    /\ UNCHANGED <<jsonVars, hiveVars, wfVars>>

Tick(d) ==
    /\ ticks < MaxTicks
    /\ ticks' = ticks + 1
    /\ now' = now + d
    /\ admitLog' = SelectSeq(admitLog, LAMBDA t : now' - t < MinuteWindow)
    /\ recordLog' = SelectSeq(recordLog, LAMBDA x : now' - x.time < HourWindow)
    /\ UNCHANGED <<max_requests_per_minute, provider, client, tracker, pc, max_tokens,
                   out, events, ledger, calls>>
    /\ UNCHANGED <<jsonVars, hiveVars, wfVars>>

-----------------------------------------------------------------------------
(* AIEngine.generate_json                                                  *)
(* A reply text is a sequence of symbols: "F" a code fence (three          *)
(* backticks), "j" the word json, "a" a JSON value, "p" a word of prose,   *)
(* "w" whitespace.  The text "```json" is the fence followed by the word.  *)

Fence == "F"
Tag == "j"
Value == "a"
Alphabet == {Fence, Tag, Value, "p", "w"}
Texts == UNION {[1..n -> Alphabet] : n \in 0..MaxReplyLen}

\* response.content: None, or a text
NoContent == [null |-> TRUE, text |-> <<>>]
Text(t) == [null |-> FALSE, text |-> t]

\* The Responses generate can hand to generate_json
JsonResponses ==
    {[success |-> FALSE, content |-> Text(<<>>), error |-> e] :
        e \in FaultTexts \cup {NotInitialized}}
    \cup {[success |-> TRUE, content |-> NoContent, error |-> None]}
    \cup {[success |-> TRUE, content |-> Text(t), error |-> None] : t \in Texts}

\* str.strip
RECURSIVE lstrip(_)
lstrip(s) == IF s # <<>> /\ s[1] = "w" THEN lstrip(Tail(s)) ELSE s
RECURSIVE rstrip(_)
rstrip(s) == IF s # <<>> /\ s[Len(s)] = "w" THEN rstrip(SubSeq(s, 1, Len(s) - 1)) ELSE s
strip(s) == rstrip(lstrip(s))

\* str.find, counted from 1; 0 when sep does not occur in s
Find(s, sep) ==
    LET at == {i \in 1..(Len(s) - Len(sep) + 1) : SubSeq(s, i, i + Len(sep) - 1) = sep}
    IN  IF at = {} THEN 0 ELSE CHOOSE i \in at : \A k \in at : i <= k

\* sep in s
Contains(s, sep) == Find(s, sep) # 0

\* str.split(sep): the pieces of s between the occurrences of sep, left to right
RECURSIVE split(_, _)
split(s, sep) ==
    LET i == Find(s, sep)
    IN  IF i = 0 THEN <<s>>
        ELSE <<SubSeq(s, 1, i - 1)>> \o split(SubSeq(s, i + Len(sep), Len(s)), sep)

\* json.loads: the text of one value decodes; anything else is a JSONDecodeError
loads(s) ==
    IF s = <<Value>> THEN [ok |-> TRUE, value |-> Value, msg |-> ""]
    ELSE IF s # <<>> /\ s[1] = Value THEN [ok |-> FALSE, value |-> "", msg |-> "Extra data"]
    ELSE [ok |-> FALSE, value |-> "", msg |-> "Expecting value"]

\* What generate_json gives back: the decoded value, a dict with an error key
\* (and a raw key when the text did not decode), or an exception
NoRaw == [present |-> FALSE, text |-> <<>>]
Raw(t) == [present |-> TRUE, text |-> t]
JsonValue(v) == [kind |-> "value", value |-> v, error |-> None, raw |-> NoRaw]
JsonError(e, raw) == [kind |-> "failure", value |-> "", error |-> e, raw |-> raw]
JsonRaised(e) == [kind |-> "raised", value |-> "", error |-> e, raw |-> NoRaw]
JsonPending == [kind |-> "pending", value |-> "", error |-> None, raw |-> NoRaw]

\* generate_json with a fault: the raw key holds the stripped text
generate_json_raw_stripped(response) ==
    IF ~response.success THEN JsonError(response.error, NoRaw)
    ELSE IF response.content.null
    THEN JsonRaised("'NoneType' object has no attribute 'strip'")
    ELSE LET content == strip(response.content.text)
             fenced ==
                IF Contains(content, <<Fence, Tag>>)
                THEN split(split(content, <<Fence, Tag>>)[2], <<Fence>>)[1]
                ELSE IF Contains(content, <<Fence>>)
                THEN split(split(content, <<Fence>>)[2], <<Fence>>)[1]
                ELSE content
             decoded == loads(strip(fenced))
         IN  IF decoded.ok THEN JsonValue(decoded.value)
             ELSE JsonError("Invalid JSON: " \o decoded.msg, Raw(content))

\* generate_json, from the Response of its generate call on
generate_json(response) ==
    IF ~response.success THEN JsonError(response.error, NoRaw)
    ELSE IF response.content.null
    THEN JsonRaised("'NoneType' object has no attribute 'strip'")
    ELSE LET content == strip(response.content.text)
             fenced ==
                IF Contains(content, <<Fence, Tag>>)
                THEN split(split(content, <<Fence, Tag>>)[2], <<Fence>>)[1]
                ELSE IF Contains(content, <<Fence>>)
                THEN split(split(content, <<Fence>>)[2], <<Fence>>)[1]
                ELSE content
             decoded == loads(strip(fenced))
         IN  IF decoded.ok THEN JsonValue(decoded.value)
             ELSE JsonError("Invalid JSON: " \o decoded.msg, Raw(response.content.text))

GenerateJson ==
    /\ json_result = JsonPending
    /\ json_result' = generate_json(json_response)
    /\ UNCHANGED <<engineVars, json_response, hiveVars, wfVars, chatVars>>

\* No generate_json call in progress
JsonIdle ==
    /\ json_response = [success |-> FALSE, content |-> Text(<<>>), error |-> None]
    /\ json_result = JsonPending

-----------------------------------------------------------------------------
(* The hive: HiveAgent (src/agent_base.py), the worker bees and the         *)
(* registry and router of QueenBee (src/orchestration/queen_bee.py).        *)
(* A HiveMessage is modelled by its sender, receiver, msg_type and content; *)
(* its id and timestamp are never read by the code.                         *)

Queen == "queen_bee_001"
Shopper == "shopper_bee_001"
AdBee == "ad_bee_001"
\* A second analysis worker, of the same role as the first
Shopper2 == "shopper_bee_002"
Bees == {Shopper, AdBee, Shopper2}
AgentIds == Bees \cup {Queen}
AgentRole == [b \in Bees |-> IF b = AdBee THEN "ad_bee" ELSE "shopper_bee"]
MessageType == {"task", "result", "query"}
\* The task type each worker's process_message handles
HandledTask ==
    [b \in Bees |-> IF AgentRole[b] = "shopper_bee" THEN "analyze_user" ELSE "create_campaign"]
TaskTypes == {"analyze_user", "create_campaign"}

HiveMessage(sender, receiver, content, msg_type) ==
    [sender |-> sender, receiver |-> receiver, content |-> content, msg_type |-> msg_type]
\* The analysis a result or a campaign task carries: a segment and the products
NoAnalysis == [segment |-> None, products |-> <<>>]
\* What _analyze_user can compile from the provider's replies and the product search
ShopperAnalyses ==
    {[segment |-> "tech_enthusiast", products |-> <<>>],
     [segment |-> "bargain_hunter", products |-> <<"p1">>]}
Content(type, success, analysis) ==
    [type |-> type, success |-> success, analysis |-> analysis]
NoMessage == HiveMessage("", "", Content(None, FALSE, NoAnalysis), "query")
\* The messages handed to route_message from outside the workers
Messages ==
    {HiveMessage(s, r, Content(t, FALSE, NoAnalysis), k) :
        s \in AgentIds, r \in AgentIds, t \in TaskTypes, k \in MessageType}

\* HiveAgent.__init__
NewAgent ==
    [state |-> "idle", tasks_completed |-> 0, tasks_failed |-> 0,
     messages_sent |-> 0, messages_received |-> 0, on_message_send |-> None]

\* The keys of worker_bees
Registered == {worker_bees[i] : i \in 1..Len(worker_bees)}

\* route_message with a fault: a message for a registered worker goes to the
\* worker registered first
route_message_to_first(message) ==
    IF message.receiver \in Registered THEN <<worker_bees[1]>> ELSE <<>>

\* route_message with a fault: a message for an unknown receiver goes to the
\* worker registered first
route_message_fallback(message) ==
    IF message.receiver \in Registered THEN <<message.receiver>>
    ELSE IF worker_bees # <<>> THEN <<worker_bees[1]>>
    ELSE <<>>

\* route_message: the workers whose receive_message it awaits, in order
route_message(message) ==
    IF message.receiver \in Registered THEN <<message.receiver>> ELSE <<>>

\* What generate_json hands to a handler: a JSON object, the dictionary with
\* "error", or a decoded JSON value that is not an object
JsonResults == {"object", "error", "list"}

\* ShopperBee._analyze_user, from the results of its two generate_json calls:
\* how it ends
analyze_user(segment_result, interests_result) ==
    IF segment_result = "error" THEN "failed"
    ELSE IF segment_result = "list" \/ interests_result = "list" THEN "raised"
    ELSE "completed"

\* AdBee._create_campaign, from the result of its strategy call and whether the
\* products of the task have the fields the copy prompt reads: how it ends
create_campaign(strategy_result, products_ok) ==
    IF strategy_result = "error" THEN "failed"
    ELSE IF strategy_result = "list" \/ ~products_ok THEN "raised"
    ELSE "completed"

\* process_message with a fault: a task is handled whatever its type
Handlings_any_task(b, m) ==
    IF m.msg_type = "task"
    THEN {"completed", "failed", "raised"}
    ELSE {"ignored"}

\* process_message with a fault: a result is answered like a task
Handlings_any_kind(b, m) ==
    IF m.msg_type \in {"task", "result"} /\ m.content.type \in {HandledTask[b], "result"}
    THEN {"completed", "failed", "raised"}
    ELSE {"ignored"}

\* What process_message of worker b can do with message m: ignore it (return
\* None), or run its task to a result (tasks_completed or tasks_failed counted,
\* a result message returned) or to an exception
Handlings(b, m) ==
    IF m.msg_type = "task" /\ m.content.type = HandledTask[b]
    THEN IF AgentRole[b] = "shopper_bee"
         THEN {analyze_user(s, i) : s \in JsonResults, i \in JsonResults}
         ELSE {create_campaign(s, ok) : s \in JsonResults, ok \in BOOLEAN}
    ELSE {"ignored"}

\* The counter a handler's end advances, with a fault: a failed task is counted
\* as completed
task_counted_as_completed(bs, b, how) ==
    IF how \in {"completed", "failed"} THEN [bs EXCEPT ![b].tasks_completed = @ + 1]
    ELSE bs

\* The counter a handler's end advances: tasks_completed before the success
\* dictionary is returned, tasks_failed before the failure dictionary
task_counted(bs, b, how) ==
    IF how = "completed" THEN [bs EXCEPT ![b].tasks_completed = @ + 1]
    ELSE IF how = "failed" THEN [bs EXCEPT ![b].tasks_failed = @ + 1]
    ELSE bs

\* The analysis in the result of worker b's task
Analyses(b, how) ==
    IF AgentRole[b] = "shopper_bee" /\ how = "completed" THEN ShopperAnalyses
    ELSE {NoAnalysis}

\* A receive_message call in progress: the worker, the message, where the call
\* stands, the worker's fields when it was called, and the handler's response
Frame(b, m) ==
    [bee |-> b, message |-> m, at |-> "process", before |-> bees[b], response |-> NoMessage]

\* The first statements of receive_message, up to the await of process_message
Entered(bs, b) ==
    [bs EXCEPT ![b].messages_received = @ + 1, ![b].state = "thinking"]

\* The end of a receive_message call of the innermost frame: the stack without
\* it, and the outermost route_message call returned when none is left
Popped == SubSeq(stack, 1, Len(stack) - 1)
Top == stack[Len(stack)]

\* register_bee with a fault: the worker's send callback is left unset
RegisterBee_unwired(b) ==
    /\ stack = <<>>
    /\ b \notin Registered
    /\ worker_bees' = Append(worker_bees, b)
    /\ UNCHANGED <<bees, stack, route, routed, engineVars, jsonVars, chatVars, wfVars>>

RegisterBee(b) ==
    /\ stack = <<>>
    /\ b \notin Registered
    /\ worker_bees' = Append(worker_bees, b)
    /\ bees' = [bees EXCEPT ![b].on_message_send = "route_message"]
    /\ UNCHANGED <<stack, route, routed, engineVars, jsonVars, chatVars, wfVars>>

\* A route_message call from outside the workers, up to its first suspension
RouteMessage(m) ==
    /\ stack = <<>>
    /\ route.calls < MaxRoutes
    /\ LET to == route_message(m)
       IN  /\ routed' = [n |-> routed.n + 1, message |-> m, to |-> to]
           /\ IF to = <<>>
              THEN /\ route' = [status |-> "returned", calls |-> route.calls + 1]
                   /\ UNCHANGED <<bees, stack>>
              ELSE /\ route' = [status |-> "running", calls |-> route.calls + 1]
                   /\ bees' = Entered(bees, to[1])
                   /\ stack' = <<Frame(to[1], m)>>
    /\ UNCHANGED <<worker_bees, engineVars, jsonVars, chatVars, wfVars>>

\* receive_message from the return (or the exception) of process_message to
\* the call of send_message, or to its own return when there is no response
ProcessMessage(how) ==
    /\ stack # <<>>
    /\ Top.at = "process"
    /\ how \in Handlings(Top.bee, Top.message)
    /\ \E analysis \in Analyses(Top.bee, how) :
        LET b == Top.bee
            result == HiveMessage("", Top.message.sender,
                                  Content("result", how = "completed", analysis), "result")
        IN  CASE how = "ignored" ->
                    /\ bees' = [bees EXCEPT ![b].state = "idle"]
                    /\ stack' = Popped
                    /\ route' = IF Popped = <<>> THEN [route EXCEPT !.status = "returned"]
                                ELSE route
              [] how = "completed" ->
                    /\ bees' = task_counted(bees, b, how)
                    /\ stack' = [stack EXCEPT ![Len(stack)].at = "send",
                                              ![Len(stack)].response = result]
                    /\ UNCHANGED route
              [] how = "failed" ->
                    /\ bees' = task_counted(bees, b, how)
                    /\ stack' = [stack EXCEPT ![Len(stack)].at = "send",
                                              ![Len(stack)].response = result]
                    /\ UNCHANGED route
              [] OTHER ->
                    /\ stack' = <<>>
                    /\ route' = [route EXCEPT !.status = "raised"]
                    /\ UNCHANGED bees
    /\ UNCHANGED <<worker_bees, routed, engineVars, jsonVars, chatVars, wfVars>>

\* send_message up to the suspension of its on_message_send call
SendMessage ==
    /\ stack # <<>>
    /\ Top.at = "send"
    /\ LET b == Top.bee
           message == [Top.response EXCEPT !.sender = b]
           to == IF bees[b].on_message_send = None THEN <<>> ELSE route_message(message)
           sent == [stack EXCEPT ![Len(stack)].at = "sent",
                                 ![Len(stack)].response = message]
       IN  /\ routed' = IF bees[b].on_message_send = None THEN routed
                        ELSE [n |-> routed.n + 1, message |-> message, to |-> to]
           /\ IF to = <<>>
              THEN /\ stack' = sent
                   /\ UNCHANGED bees
              ELSE /\ bees' = Entered(bees, to[1])
                   /\ stack' = Append(sent, Frame(to[1], message))
    /\ UNCHANGED <<worker_bees, route, engineVars, jsonVars, chatVars, wfVars>>

\* The end of send_message and of receive_message
ReturnFromSend ==
    /\ stack # <<>>
    /\ Top.at = "sent"
    /\ bees' = [bees EXCEPT ![Top.bee].messages_sent = @ + 1, ![Top.bee].state = "idle"]
    /\ stack' = Popped
    /\ route' = IF Popped = <<>> THEN [route EXCEPT !.status = "returned"] ELSE route
    /\ UNCHANGED <<worker_bees, routed, engineVars, jsonVars, chatVars, wfVars>>

\* QueenBee.__init__ and the workers' HiveAgent.__init__
HiveInit ==
    /\ worker_bees = <<>>
    /\ bees = [b \in Bees |-> NewAgent]
    /\ stack = <<>>
    /\ route = [status |-> "none", calls |-> 0]
    /\ routed = [n |-> 0, message |-> NoMessage, to |-> <<>>]

-----------------------------------------------------------------------------
(* QueenBee.execute_workflow and _full_campaign_workflow.                   *)
(* The clock counts in units of the fixed wait, asyncio.sleep(0.5).         *)

WaitTime == 1
\* How long a worker's provider call can take, when it takes time at all
HandlerTimes == {2}
WorkflowTypes == {"full_ad_campaign", "other"}
\* The data argument: its products entry (absent reads as the empty list)
WorkflowData == {[products |-> <<>>], [products |-> <<"p1">>]}
\* str(e) of what a worker's handler can raise
HandlerFaults == {"'list' object has no attribute 'get'", "list index out of range"}

\* strftime('%Y%m%d%H%M%S') of the clock: the whole second
workflow_id(t) == "workflow_" \o ToString(t \div 2)

\* _find_bee_by_role with a fault: the role is not compared
find_bee_by_role_any(role) ==
    IF worker_bees = <<>> THEN None ELSE worker_bees[1]

\* _find_bee_by_role with a fault: the last registered worker of that role
find_bee_by_role_last(role) ==
    LET at == {i \in 1..Len(worker_bees) : AgentRole[worker_bees[i]] = role}
    IN  IF at = {} THEN None
        ELSE worker_bees[CHOOSE i \in at : \A k \in at : i >= k]

\* _find_bee_by_role: the first registered worker of that role, or None
find_bee_by_role(role) ==
    LET at == {i \in 1..Len(worker_bees) : AgentRole[worker_bees[i]] = role}
    IN  IF at = {} THEN None
        ELSE worker_bees[CHOOSE i \in at : \A k \in at : i <= k]

\* The test after each step's wait, with a fault: every step passes
step_completed_always(b) == TRUE

\* The test after each step's wait: tasks_completed == 0 means the step failed
step_completed(b) == bees[b].tasks_completed # 0

\* The shopper_analysis of the campaign task
shopper_analysis(data) == [segment |-> "tech_enthusiast", products |-> data.products]

\* The dicts _full_campaign_workflow returns, before execute_workflow stamps them
WorkflowResult(success, error, bees_involved) ==
    [success |-> success, error |-> error, bees_involved |-> bees_involved,
     workflow_id |-> None, has_execution_time |-> FALSE, execution_time |-> 0]
WorkflowFailed(error) == WorkflowResult(FALSE, error, <<>>)
\* _full_campaign_workflow's success dict with a fault: the workers are listed
\* campaign worker first
WorkflowSucceeded_reversed(shopper_bee_id, ad_bee_id) ==
    WorkflowResult(TRUE, None, <<ad_bee_id, shopper_bee_id>>)

WorkflowSucceeded(shopper_bee_id, ad_bee_id) ==
    WorkflowResult(TRUE, None, <<shopper_bee_id, ad_bee_id>>)

\* execute_workflow after its workflow returned: the counter, and the stamps
Finalized(q, result, id, execution_time) ==
    [queen |-> IF result.success
               THEN [q EXCEPT !.workflows_completed = @ + 1]
               ELSE [q EXCEPT !.workflows_failed = @ + 1],
     result |-> [result EXCEPT !.workflow_id = id,
                               !.has_execution_time = TRUE,
                               !.execution_time = execution_time]]

\* execute_workflow's except clause with a fault: the failure is not counted
Excepted_uncounted(q, e, id) ==
    [queen |-> q, result |-> [WorkflowFailed(e) EXCEPT !.workflow_id = id]]

\* execute_workflow's except clause with a fault: the exception's text is lost
\* and the run is reported as a success
Excepted_swallowed(q, e, id) ==
    [queen |-> [q EXCEPT !.workflows_failed = @ + 1],
     result |-> [WorkflowResult(TRUE, None, <<>>) EXCEPT !.workflow_id = id]]

\* execute_workflow's except clause
Excepted(q, e, id) ==
    [queen |-> [q EXCEPT !.workflows_failed = @ + 1],
     result |-> [WorkflowFailed(e) EXCEPT !.workflow_id = id]]

\* The end of an execute_workflow call
Ended(w, result) ==
    [w EXCEPT !.pc = "idle", !.result = result, !.returned = @ + 1,
              !.log = Append(@, "return")]

\* execute_workflow, to its return or to the suspension of its first step
ExecuteWorkflow(workflow_type, data) ==
    /\ workflow.pc = "idle"
    /\ stack = <<>>
    /\ workflow.calls < MaxWorkflows
    /\ LET id == workflow_id(clock)
           shopper_bee_id == find_bee_by_role("shopper_bee")
           started == [workflow EXCEPT !.calls = @ + 1, !.id = id, !.start_time = clock,
                                       !.data = data, !.log = <<>>, !.slow = FALSE,
                                       !.shopper = None, !.ad = None,
                                       !.type = workflow_type, !.before = bees]
           message == HiveMessage(Queen, shopper_bee_id,
                                  Content("analyze_user", FALSE, NoAnalysis), "task")
           to == route_message(message)
       IN  IF workflow_type # "full_ad_campaign" \/ shopper_bee_id = None
           THEN LET error == IF workflow_type # "full_ad_campaign" THEN "Unknown workflow"
                             ELSE "Shopper bee not found"
                    end == Finalized(queen, WorkflowFailed(error), id, 0)
                IN  /\ queen' = end.queen
                    /\ workflow' = Ended(started, end.result)
                    /\ UNCHANGED hiveVars
           ELSE /\ workflow' = [started EXCEPT !.pc = "step1", !.shopper = shopper_bee_id,
                                               !.log = <<"task " \o shopper_bee_id>>]
                /\ routed' = [n |-> routed.n + 1, message |-> message, to |-> to]
                /\ route' = [route EXCEPT !.status = IF to = <<>> THEN "returned"
                                                     ELSE "running"]
                /\ bees' = IF to = <<>> THEN bees ELSE Entered(bees, to[1])
                /\ stack' = IF to = <<>> THEN <<>> ELSE <<Frame(to[1], message)>>
                /\ UNCHANGED <<queen, worker_bees>>
    /\ UNCHANGED <<clock, engineVars, jsonVars, chatVars>>

\* The provider call of the worker at work takes time
Elapse(d) ==
    /\ workflow.pc # "idle"
    /\ stack # <<>>
    /\ Top.at = "process"
    /\ ~workflow.slow
    /\ clock' = clock + d
    /\ workflow' = [workflow EXCEPT !.slow = TRUE]
    /\ UNCHANGED <<queen, hiveVars, engineVars, jsonVars, chatVars>>

\* await self.route_message(...) with a fault: the workflow goes on without
\* waiting for the call to return
RouteReturned_not_awaited == TRUE

\* await self.route_message(...): the workflow goes on when the call has returned
RouteReturned == stack = <<>> /\ route.status = "returned"

\* _full_campaign_workflow from the return of its first route_message call:
\* the wait, the test of the shopper's counter, and the campaign task
AfterAnalysis ==
    /\ workflow.pc = "step1"
    /\ RouteReturned
    /\ clock' = clock + WaitTime
    /\ LET ad_bee_id == find_bee_by_role("ad_bee")
           judged == [workflow EXCEPT !.log = Append(@, "judged " \o workflow.shopper),
                                      !.slow = FALSE]
           message == HiveMessage(Queen, ad_bee_id,
                                  Content("create_campaign", FALSE,
                                          shopper_analysis(workflow.data)), "task")
           to == route_message(message)
       IN  IF ~step_completed(workflow.shopper) \/ ad_bee_id = None
           THEN LET error == IF ~step_completed(workflow.shopper)
                             THEN "Shopper analysis failed"
                             ELSE "Ad bee not found"
                    end == Finalized(queen, WorkflowFailed(error), workflow.id,
                                     clock' - workflow.start_time)
                IN  /\ queen' = end.queen
                    /\ workflow' = Ended(judged, end.result)
                    /\ UNCHANGED hiveVars
           ELSE /\ workflow' = [judged EXCEPT !.pc = "step2", !.ad = ad_bee_id,
                                              !.log = Append(@, "task " \o ad_bee_id)]
                /\ routed' = [n |-> routed.n + 1, message |-> message, to |-> to]
                /\ route' = [route EXCEPT !.status = IF to = <<>> THEN "returned"
                                                     ELSE "running"]
                /\ bees' = IF to = <<>> THEN bees ELSE Entered(bees, to[1])
                /\ stack' = IF to = <<>> THEN <<>> ELSE <<Frame(to[1], message)>>
                /\ UNCHANGED <<queen, worker_bees>>
    /\ UNCHANGED <<engineVars, jsonVars, chatVars>>

\* _full_campaign_workflow from the return of its second route_message call,
\* and execute_workflow to its return
AfterCampaign ==
    /\ workflow.pc = "step2"
    /\ RouteReturned
    /\ clock' = clock + WaitTime
    /\ LET judged == [workflow EXCEPT !.log = Append(@, "judged " \o workflow.ad)]
           result == IF step_completed(workflow.ad)
                     THEN WorkflowSucceeded(workflow.shopper, workflow.ad)
                     ELSE WorkflowFailed("Campaign creation failed")
           end == Finalized(queen, result, workflow.id, clock' - workflow.start_time)
       IN  /\ queen' = end.queen
           /\ workflow' = Ended(judged, end.result)
    /\ UNCHANGED <<hiveVars, engineVars, jsonVars, chatVars>>

\* execute_workflow when a route_message call of its workflow raised
WorkflowFault(e) ==
    /\ workflow.pc \in {"step1", "step2"}
    /\ route.status = "raised"
    /\ LET end == Excepted(queen, e, workflow.id)
       IN  /\ queen' = end.queen
           /\ workflow' = Ended(workflow, end.result)
    /\ UNCHANGED <<clock, hiveVars, engineVars, jsonVars, chatVars>>

\* QueenBee.__init__: no workflow run yet
WorkflowInit ==
    /\ queen = [workflows_completed |-> 0, workflows_failed |-> 0]
    /\ workflow = [pc |-> "idle", calls |-> 0, returned |-> 0, id |-> None,
                   start_time |-> 0, data |-> [products |-> <<>>], shopper |-> None,
                   ad |-> None, slow |-> FALSE, log |-> <<>>, type |-> None,
                   before |-> [b \in Bees |-> NewAgent],
                   result |-> WorkflowFailed(None)]
    /\ clock = 0

-----------------------------------------------------------------------------
(* EnhancedAIEngine.chat and ConversationMemory                             *)
(* (src/ai/enhanced_ai_engine.py).  The database the conversation is saved  *)
(* to is not read by chat, and _save_conversation swallows its exceptions.  *)

\* ConversationMemory.max_turns (10 in the source), scaled down
MaxTurns == 4
Sessions == {"s1", "s2"}
Prompts == {"hello", "again"}
SystemPrompts == {None, "be brief"}
\* The time between two chat calls, when time passes: a minute
ChatTickSteps == {60}

\* ConversationTurn; the timestamp is never read
ConversationTurn(role, content) == [role |-> role, content |-> content, metadata |-> <<>>]

\* ConversationMemory.add_turn: append to a deque(maxlen=max_turns)
add_turn(turns, role, content) ==
    LET all == Append(turns, ConversationTurn(role, content))
    IN  IF Len(all) > MaxTurns THEN Tail(all) ELSE all

\* ConversationMemory.get_context_messages
get_context_messages(turns) ==
    [i \in 1..Len(turns) |-> [role |-> turns[i].role, content |-> turns[i].content]]

\* The messages _openai_generate and _anthropic_generate put in the provider's
\* request, from the arguments of generate
request_messages(system_prompt, prompt) ==
    (IF provider = "openai" /\ system_prompt \notin {None, ""}
     THEN <<[role |-> "system", content |-> system_prompt]>>
     ELSE <<>>) \o <<[role |-> "user", content |-> prompt]>>

\* A session chat has not been called with
NoConversation == [present |-> FALSE, turns |-> <<>>]

\* chat when its generate call has returned: the two turns of a success
Remembered(cs, session_id, prompt, response) ==
    IF response.success
    THEN [cs EXCEPT ![session_id].turns =
            add_turn(add_turn(@, "user", prompt), "assistant", response.content)]
    ELSE cs

\* chat, to the suspension of its generate call at the provider, or to its
\* return when generate returned or raised before that
Chat(prompt, session_id, system_prompt) ==
    /\ chat.pc = "idle"
    /\ Generate(Main, [given |-> TRUE, value |-> MaxTokensPerRequest])
    /\ LET conversation == IF conversations[session_id].present
                           THEN conversations[session_id]
                           ELSE [present |-> TRUE, turns |-> <<>>]
           created == [conversations EXCEPT ![session_id] = conversation]
           context_messages == get_context_messages(conversation.turns)
           called == [chat EXCEPT !.session = session_id, !.prompt = prompt,
                                  !.context_messages = context_messages,
                                  !.calls = @ + 1]
       IN  IF pc'[Main] = "awaiting"
           THEN /\ chat' = [called EXCEPT !.pc = "generating",
                                          !.request = request_messages(system_prompt, prompt)]
                /\ conversations' = created
           ELSE /\ chat' = [called EXCEPT !.request = <<>>, !.returned = @ + 1,
                                          !.response = out'[Main]]
                /\ conversations' =
                      IF out'[Main].kind = "raised" THEN created
                      ELSE Remembered(created, session_id, prompt, out'[Main].response)

\* chat, from the provider's reply to its return
ChatReply(r) ==
    /\ chat.pc = "generating"
    /\ ProviderReply(Main, r)
    /\ conversations' = Remembered(conversations, chat.session, chat.prompt,
                                   out'[Main].response)
    /\ chat' = [chat EXCEPT !.pc = "idle", !.returned = @ + 1, !.response = out'[Main]]

\* EnhancedAIEngine.__init__: no conversation yet
ChatInit ==
    /\ conversations = [s \in Sessions |-> NoConversation]
    /\ chat = [pc |-> "idle", session |-> None, prompt |-> None, context_messages |-> <<>>,
               request |-> <<>>, calls |-> 0, returned |-> 0, response |-> NoOutcome]

-----------------------------------------------------------------------------
(* Specifications *)

EngineInit ==
    /\ now = 0
    /\ max_requests_per_minute \in 0..MaxRpm
    /\ provider \in Providers
    /\ client \in BOOLEAN
    /\ tracker = [minute_requests |-> <<>>, hour_tokens |-> 0, hour_cost |-> 0,
                  hour_start |-> 0, total_requests |-> 0, total_tokens |-> 0,
                  total_cost |-> 0]
    /\ pc = [c \in Callers |-> "idle"]
    /\ max_tokens = [c \in Callers |-> 0]
    /\ out = [c \in Callers |-> NoOutcome]
    /\ events = [c \in Callers |-> <<>>]
    /\ admitLog = <<>>
    /\ recordLog = <<>>
    /\ ledger = [requests |-> 0, tokens |-> 0, cost |-> 0, hour_tokens |-> 0,
                 hour_cost |-> 0, overrun |-> FALSE]
    /\ calls = 0
    /\ ticks = 0

Init == EngineInit /\ JsonIdle /\ HiveInit /\ WorkflowInit /\ ChatInit

\* Sequential use (one logical thread): one caller, one generate call at a time
Next ==
    \/ \E arg \in MaxTokensArgs : Generate(Main, arg) /\ UNCHANGED chatVars
    \/ \E r \in ProviderOutcomes(max_tokens[Main]) : ProviderReply(Main, r) /\ UNCHANGED chatVars
    \/ \E d \in TickSteps : Tick(d) /\ UNCHANGED chatVars

Spec == Init /\ [][Next]_vars

\* Any interleaving of the callers at the provider call
NextConcurrent ==
    \/ \E c \in Callers, arg \in MaxTokensArgs : Generate(c, arg) /\ UNCHANGED chatVars
    \/ \E c \in Callers : \E r \in ProviderOutcomes(max_tokens[c]) :
            ProviderReply(c, r) /\ UNCHANGED chatVars
    \/ \E d \in RaceTickSteps : Tick(d) /\ UNCHANGED chatVars

SpecConcurrent == Init /\ [][NextConcurrent]_vars

\* generate_json applied to one Response of generate, on an engine at rest
InitJson ==
    /\ EngineInit
    /\ max_requests_per_minute = MaxRpm /\ provider = "openai" /\ client
    /\ json_response \in JsonResponses
    /\ json_result = JsonPending
    /\ HiveInit
    /\ WorkflowInit
    /\ ChatInit

NextJson == GenerateJson

SpecJson == InitJson /\ [][NextJson]_vars

\* The hive: registration, routing and the workers' receive_message
InitHive ==
    /\ EngineInit
    /\ max_requests_per_minute = MaxRpm /\ provider = "openai" /\ client
    /\ JsonIdle
    /\ HiveInit
    /\ WorkflowInit
    /\ ChatInit

NextHive ==
    \/ \E b \in Bees : RegisterBee(b)
    \/ \E m \in Messages : RouteMessage(m)
    \/ \E how \in {"ignored", "completed", "failed", "raised"} : ProcessMessage(how)
    \/ SendMessage
    \/ ReturnFromSend

SpecHive == InitHive /\ [][NextHive]_vars

\* Workflow runs, one after the other, on workers registered between the runs
NextWorkflow ==
    \/ \E b \in Bees : workflow.pc = "idle" /\ RegisterBee(b)
    \/ \E t \in WorkflowTypes, data \in WorkflowData : ExecuteWorkflow(t, data)
    \/ \E d \in HandlerTimes : Elapse(d)
    \/ \E how \in {"ignored", "completed", "failed", "raised"} : ProcessMessage(how)
    \/ SendMessage
    \/ ReturnFromSend
    \/ AfterAnalysis
    \/ AfterCampaign
    \/ \E e \in HandlerFaults : WorkflowFault(e)

SpecWorkflow == InitHive /\ [][NextWorkflow]_vars

\* Chat calls, one after the other, on one engine
NextChat ==
    \/ \E p \in Prompts, s \in Sessions, sp \in SystemPrompts : Chat(p, s, sp)
    \/ \E r \in ProviderOutcomes(max_tokens[Main]) : ChatReply(r)
    \/ \E d \in ChatTickSteps : Tick(d) /\ UNCHANGED chatVars

SpecChat == Init /\ [][NextChat]_vars

-----------------------------------------------------------------------------
(* Properties of the request engine *)

\* A generate call started in this step: check_limits ran, and nothing was recorded
Checked == calls' # calls
Totals(tr) == <<tr.total_requests, tr.total_tokens, tr.total_cost>>
Hour(tr) == <<tr.hour_tokens, tr.hour_cost, tr.hour_start>>
Elems(q) == {q[i] : i \in 1..Len(q)}
RECURSIVE SumTokens(_)
SumTokens(q) == IF q = <<>> THEN 0 ELSE q[1].tokens + SumTokens(Tail(q))
Rejected(c) == Len(events[c]) >= 1 /\ events[c][1].e = "reject"
RejectedNow == Checked /\ Len(events'[Main]) >= 1 /\ events'[Main][1].e = "reject"

\* C1: within any 60 seconds, the calls check_limits allowed never number more
\* than max_requests_per_minute.
C1_AdmittedWithinCeiling == Len(admitLog) <= max_requests_per_minute

\* C2: after the pruning step of every check_limits call, the minute list holds
\* exactly the recorded timestamps less than 60 seconds older than now, whatever
\* their age.
TrailingMinute ==
    LET recent == SelectSeq(recordLog, LAMBDA x : now - x.time < MinuteWindow)
    IN  [i \in 1..Len(recent) |-> recent[i].time]
C2_MinuteListIsTrailingMinute ==
    [][Checked => tracker'.minute_requests = TrailingMinute]_vars

\* C3: a check_limits call made 3600 seconds or more after the hour anchor,
\* however long after, zeroes the hourly accumulators and moves the anchor to
\* now; no step decreases a lifetime total.
C3_HourResetAfterAnyElapsed ==
    [][/\ (Checked /\ now - tracker.hour_start >= HourWindow)
            => Hour(tracker') = <<0, 0, now>>
       /\ tracker'.total_requests >= tracker.total_requests
       /\ tracker'.total_tokens >= tracker.total_tokens
       /\ tracker'.total_cost >= tracker.total_cost]_vars

\* C4 as stated: in sequential use with actual usage at most the estimate, the
\* tokens recorded within any 3600 seconds sum to at most max_tokens_per_hour.
C4_RollingHourTokens ==
    ~ledger.overrun => SumTokens(recordLog) <= MaxTokensPerHour

\* C4 as amended: in sequential use with actual usage at most the estimate, the
\* tokens recorded since the last hourly reset sum to at most max_tokens_per_hour.
C4_HourTokensWithinCeiling ==
    ~ledger.overrun =>
        /\ ledger.hour_tokens <= MaxTokensPerHour
        /\ tracker.hour_tokens <= MaxTokensPerHour
C4_Witness ==
    /\ ~ledger.overrun
    /\ ledger.requests >= 2
    /\ ledger.hour_tokens = MaxTokensPerHour

\* C5 as stated: the hourly and lifetime totals get_stats reports equal the sums
\* of the increments passed to record_usage (since the last hourly reset, and
\* ever), and total_requests equals the number of record_usage calls.
C5_ReportedEqualsRecorded ==
    LET st == get_stats(tracker)
    IN  /\ st.current_hour.tokens = ledger.hour_tokens
        /\ st.current_hour.cost = ledger.hour_cost
        /\ st.total.tokens = ledger.tokens
        /\ st.total.cost = ledger.cost
        /\ st.total.requests = ledger.requests

\* C5 as amended: the reported token totals and request count equal those sums;
\* the reported costs equal the sums rounded to 4 decimal places, and the
\* unrounded hour_cost and total_cost fields equal the sums.
C5_ReportedEqualsRecordedRounded ==
    LET st == get_stats(tracker)
    IN  /\ st.current_hour.tokens = ledger.hour_tokens
        /\ st.total.tokens = ledger.tokens
        /\ st.total.requests = ledger.requests
        /\ st.current_hour.cost = Round4(ledger.hour_cost)
        /\ st.total.cost = Round4(ledger.cost)
        /\ tracker.hour_cost = ledger.hour_cost
        /\ tracker.total_cost = ledger.cost
C5_Witness ==
    /\ ledger.hour_tokens > 0
    /\ ledger.tokens > ledger.hour_tokens
    /\ Round4(ledger.cost) # ledger.cost

\* C6: check_limits tests the request count, then the tokens, then the cost; the
\* reason it returns is that of the first test violated, it allows the call
\* exactly when none is, and it changes nothing but what the lazy prune and
\* reset change.
C6_ChecksInOrder ==
    [][Checked =>
        LET tr == tracker'
            est == max_tokens'[Main]
            first == events'[Main][1].e
            error == out'[Main].response.error
            rate == Len(tr.minute_requests) >= max_requests_per_minute
            token == tr.hour_tokens + est > MaxTokensPerHour
            cost == tr.hour_cost + est * EstimateRate > MaxCostPerHour
        IN  /\ first = "admit" <=> ~(rate \/ token \/ cost)
            /\ first = "raise" => rate
            /\ first = "reject" =>
                  /\ rate => error = "Resource limit: " \o RateReason(tr)
                  /\ ~rate /\ token => error = "Resource limit: " \o TokenReason
                  /\ ~rate /\ ~token => error = "Resource limit: " \o CostReason
            /\ Totals(tr) = Totals(tracker)
            /\ Elems(tr.minute_requests) \subseteq Elems(tracker.minute_requests)
            /\ Hour(tr) \in {Hour(tracker), <<0, 0, now>>}]_vars
C6_Witness ==
    /\ Rejected(Main)
    /\ out[Main].response.error = "Resource limit: " \o TokenReason
    /\ tracker.hour_cost + max_tokens[Main] * EstimateRate > MaxCostPerHour

\* C7: check_limits never raises, whatever the ceilings: no generate call ends
\* in an exception.
C7_CheckLimitsNeverRaises == \A c \in Callers : out[c].kind # "raised"

\* C8 as stated: a rejected generate call returns a failure Response whose error
\* holds the reason, issues no provider call, and leaves the tracker as it was.
C8_RejectionLeavesTrackerUnchanged ==
    [][RejectedNow =>
        /\ out'[Main].kind = "response"
        /\ ~out'[Main].response.success
        /\ events'[Main] = <<Ev("reject"), Ev("return")>>
        /\ tracker' = tracker]_vars

\* C8 as amended: a rejected generate call returns a failure Response whose error
\* holds the reason, issues no provider call and records nothing; the lifetime
\* totals are unchanged, and the minute list and the hourly accumulators change
\* only by the lazy prune and reset of check_limits.
C8_RejectionOnlyPrunesAndResets ==
    [][RejectedNow =>
        /\ out'[Main].kind = "response"
        /\ ~out'[Main].response.success
        /\ out'[Main].response.content = ""
        /\ out'[Main].response.error \in
              {"Resource limit: " \o r : r \in
                  (IF tracker'.minute_requests = <<>> THEN {} ELSE {RateReason(tracker')})
                  \cup {TokenReason, CostReason}}
        /\ events'[Main] = <<Ev("reject"), Ev("return")>>
        /\ pc'[Main] = "done"
        /\ Totals(tracker') = Totals(tracker)
        /\ Len(tracker'.minute_requests) <= Len(tracker.minute_requests)
        /\ Elems(tracker'.minute_requests) \subseteq Elems(tracker.minute_requests)
        /\ Hour(tracker') \in {Hour(tracker), <<0, 0, now>>}
        /\ recordLog' = recordLog /\ ledger'.requests = ledger.requests]_vars
C8_Witness ==
    /\ Rejected(Main)
    /\ now > 0 /\ tracker.hour_start = now
    /\ ledger.tokens > 0 /\ ledger.hour_tokens = 0

\* C9: in every generate call admit comes before the provider call, which comes
\* before record, which comes before the return; a Response with success=true
\* is returned after exactly one record_usage call, made with the Response's
\* tokens_used and cost_usd.
C9_AdmitCallRecordReturn ==
    \A c \in Callers :
        LET es == events[c]
            r == out[c].response
        IN  /\ \A i \in 1..Len(es) : es[i].e = "call" => i = 2 /\ es[1].e = "admit"
            /\ \A i \in 1..Len(es) : es[i].e = "record" => i = 3 /\ es[2].e = "call"
            /\ (out[c].kind = "response" /\ r.success) =>
                  es = <<Ev("admit"), Ev("call"),
                         [e |-> "record", tokens |-> r.tokens_used, cost |-> r.cost_usd],
                         Ev("return")>>
C9_Witness ==
    /\ out[Main].kind = "response"
    /\ out[Main].response.success
    /\ out[Main].response.tokens_used > 0
    /\ tracker.total_requests = 2

\* C10: every Response generate returns is either success=true with content and
\* no error, or success=false with an error and empty content.
C10_ContentOrError ==
    \A c \in Callers :
        out[c].kind = "response" =>
            LET r == out[c].response
            IN  \/ r.success /\ r.content \notin {"", None} /\ r.error = None
                \/ ~r.success /\ r.error \notin {"", None} /\ r.content = ""

\* C11: generate never raises: every generate call ends in a Response, and on an
\* engine without credentials that Response has success=false and an error
\* description.
C11_GenerateNeverRaises ==
    \A c \in Callers :
        pc[c] = "done" =>
            /\ out[c].kind = "response"
            /\ ~client => /\ ~out[c].response.success
                          /\ out[c].response.error \notin {"", None}

\* C12: a failure Response that follows a failed call to the selected provider
\* is returned only after the request was attempted on the other provider too.
C12_FailsOverToOtherProvider ==
    \A c \in Callers :
        (/\ pc[c] = "done"
         /\ out[c].kind = "response"
         /\ ~out[c].response.success
         /\ ~Rejected(c))
            => Attempted(c) = Providers

\* C13: no provider call issued through generate carries a max_tokens greater
\* than max_tokens_per_request.
C13_CallWithinRequestCeiling ==
    \A c \in Callers : pc[c] = "awaiting" => max_tokens[c] <= MaxTokensPerRequest

\* C14: nothing holds a generate call back while another is suspended at its
\* provider call: check_limits decides on the tracker as it stands, whatever is
\* in flight, so the second call is allowed exactly when the recorded usage
\* passes the three tests.
C14_NoMutualExclusion ==
    [][\A c, other \in Callers :
        (Checked /\ c # other /\ pc[other] = "awaiting") =>
            LET tr == tracker'
                est == max_tokens'[c]
                rate == Len(tr.minute_requests) >= max_requests_per_minute
                token == tr.hour_tokens + est > MaxTokensPerHour
                cost == tr.hour_cost + est * EstimateRate > MaxCostPerHour
            IN  /\ events'[c][1].e = "admit" <=> ~(rate \/ token \/ cost)
                /\ pc'[other] = "awaiting"]_vars
\* Two calls, both allowed before either recorded, each within its estimate:
\* more requests recorded in the minute than max_requests_per_minute, and more
\* tokens in the hour than max_tokens_per_hour
C14_Witness ==
    /\ \A c \in Callers : pc[c] = "done" /\ out[c].kind = "response" /\ out[c].response.success
    /\ ~ledger.overrun
    /\ Len(recordLog) > max_requests_per_minute
    /\ Len(tracker.minute_requests) > max_requests_per_minute
    /\ max_requests_per_minute > 0
    /\ tracker.hour_tokens > MaxTokensPerHour
    /\ ledger.hour_tokens > MaxTokensPerHour

\* The caller's generate call returns a Response in this step
GenerateReturns ==
    /\ pc'[Main] = "done"
    /\ calls' # calls \/ pc[Main] = "awaiting"
    /\ out'[Main].kind = "response"

\* C35: whenever generate returns a Response with success=false, no usage was
\* recorded for that call: the minute list has no new entry and the hour
\* accumulators and lifetime totals have not grown, also when the fault occurs
\* while the provider's reply is being read.
C35_FailureRecordsNothing ==
    [][(GenerateReturns /\ ~out'[Main].response.success) =>
        /\ Totals(tracker') = Totals(tracker)
        /\ tracker'.hour_tokens <= tracker.hour_tokens
        /\ tracker'.hour_cost <= tracker.hour_cost
        /\ Len(tracker'.minute_requests) <= Len(tracker.minute_requests)
        /\ Elems(tracker'.minute_requests) \subseteq Elems(tracker.minute_requests)]_vars

\* C36: in sequential use, the provider calls issued within any 60 seconds
\* never number more than max_requests_per_minute, whether they succeed or
\* fail.  (With a client, every call check_limits allows is issued.)
C36_IssuedWithinCeiling ==
    client => Len(admitLog) <= max_requests_per_minute

\* C37: in sequential use the hourly token accumulator never exceeds
\* max_tokens_per_hour, for every usage a provider may report (prompt tokens
\* plus completion tokens, the completion tokens at most the requested ceiling).
C37_HourTokensNeverExceed ==
    tracker.hour_tokens <= MaxTokensPerHour

-----------------------------------------------------------------------------
(* Properties of generate_json *)

\* The reply text of a generate_json call that gave something back
JsonDone == json_result.kind # "pending"
ReplyText == json_response.content.text
Replied == JsonDone /\ json_response.success /\ ~json_response.content.null
\* The places of the fences in t; the text between two fences, without the tag
\* that follows the opening fence at once
FencesOf(t) == {i \in 1..Len(t) : t[i] = Fence}
Tagged(t, i) == i < Len(t) /\ t[i + 1] = Tag
Between(t, i, k) == SubSeq(t, IF Tagged(t, i) THEN i + 2 ELSE i + 1, k - 1)
\* s is one value, with or without whitespace around it
IsValue(s) ==
    \E i \in 1..Len(s) : s[i] = Value /\ \A k \in 1..Len(s) : k # i => s[k] = "w"
\* What decoding the text s gives
DecodedAs(s) ==
    IF IsValue(s) THEN json_result = JsonValue(Value) ELSE json_result.kind = "failure"
\* t holds one fenced block: an opening fence and a closing fence, the closing
\* one not followed at once by the tag (which would open another block)
OneBlock(t) ==
    /\ Cardinality(FencesOf(t)) = 2
    /\ \A i, k \in FencesOf(t) : i < k => ~Tagged(t, k)
FirstBlock(t) ==
    LET i == CHOOSE x \in FencesOf(t) : \A y \in FencesOf(t) : x <= y
        k == CHOOSE x \in FencesOf(t) \ {i} : \A y \in FencesOf(t) \ {i} : x <= y
    IN  Between(t, i, k)

\* C15: from a reply with one fenced block, prose before and after, generate_json
\* decodes the fenced content and returns it; from a reply that does not decode
\* it returns an error description and, under raw, the reply text as received.
C15_DecodesFencedBlock ==
    Replied =>
        /\ OneBlock(ReplyText) => DecodedAs(FirstBlock(ReplyText))
        /\ FencesOf(ReplyText) = {} => DecodedAs(ReplyText)
        /\ json_result.kind = "failure" =>
              /\ json_result.error \in {"Invalid JSON: Expecting value",
                                        "Invalid JSON: Extra data"}
              /\ json_result.raw = Raw(ReplyText)
C15_Witness ==
    /\ Replied
    /\ OneBlock(ReplyText)
    /\ ReplyText[1] = "p" /\ ReplyText[Len(ReplyText)] = "p"
    /\ json_result = JsonValue(Value)

\* C16: from a reply with more than one fenced block, generate_json decodes the
\* contents of the first block of the text, whatever fences are tagged.
C16_DecodesFirstBlock ==
    (Replied /\ Cardinality(FencesOf(ReplyText)) >= 4)
        => DecodedAs(FirstBlock(ReplyText))

\* C17: generate_json never raises: for every Response of generate it returns
\* the decoded value or a failure value with an error key.
C17_GenerateJsonNeverRaises ==
    JsonDone => json_result.kind \in {"value", "failure"}

-----------------------------------------------------------------------------
(* Properties of the hive *)

\* A receive_message call returns in this step: the innermost frame ends, and
\* not by an exception
Returns == Len(stack') < Len(stack) /\ route'.status # "raised"
\* route_message is called in this step
Routes == routed'.n # routed.n
\* The receive_message calls in progress: who received what
Deliveries(st) == [i \in 1..Len(st) |-> <<st[i].bee, st[i].message>>]

\* C18: for every receive_message call that returns, the worker was idle before
\* the call and is idle after it, messages_received has grown by exactly one,
\* and messages_sent by one when the handler produced a response, else by none.
C18_ReceiveIdleToIdle ==
    [][Returns =>
        LET call == Top
            before == call.before
            after == bees'[call.bee]
        IN  /\ before.state = "idle"
            /\ after.state = "idle"
            /\ after.messages_received = before.messages_received + 1
            /\ after.messages_sent = before.messages_sent
                  + (IF call.response = NoMessage THEN 0 ELSE 1)]_vars

\* C19: a route_message call with a message for a registered worker invokes
\* receive_message exactly once, on the worker registered under the receiver's
\* identifier and on no other, with that same message.
C19_DeliveredOnceToReceiver ==
    [][(Routes /\ routed'.message.receiver \in Registered) =>
        LET m == routed'.message
        IN  /\ routed'.to = <<m.receiver>>
            /\ Len(stack') = Len(stack) + 1
            /\ Deliveries(stack') = Append(Deliveries(stack), <<m.receiver, m>>)
            /\ bees'[m.receiver].messages_received = bees[m.receiver].messages_received + 1
            /\ bees'[m.receiver].state = "thinking"
            /\ \A b \in Bees \ {m.receiver} : bees'[b] = bees[b]]_vars
\* A worker's result, routed to the other worker while the first call is open
C19_Witness ==
    /\ Len(stack) = 2
    /\ stack[1].bee # stack[2].bee
    /\ stack[2].message = routed.message
    /\ routed.message.msg_type = "result"
    /\ routed.to = <<stack[2].bee>>
    /\ worker_bees[1] # stack[2].bee
    /\ bees[stack[2].bee].messages_received = 1

\* C20: a route_message call with a message whose receiver is not registered
\* raises nothing and changes nothing: no receive_message is invoked, and the
\* workers' states and counters and the registry stay as they were.
C20_UnknownReceiverDropped ==
    [][(Routes /\ routed'.message.receiver \notin Registered) =>
        /\ routed'.to = <<>>
        /\ bees' = bees
        /\ worker_bees' = worker_bees
        /\ Deliveries(stack') = Deliveries(stack)
        /\ route'.status # "raised"
        /\ stack = <<>> => route'.status = "returned"]_vars
\* A message for an identifier that is not registered, with a worker registered
C20_Witness ==
    /\ routed.n > 0
    /\ routed.to = <<>>
    /\ routed.message.receiver \notin Registered
    /\ worker_bees # <<>>
    /\ route.status = "returned"
    /\ stack = <<>>
    /\ \A b \in Bees : bees[b].messages_received = 0

\* send_message reaches its callback in this step
Sends == stack # <<>> /\ Top.at = "send" /\ stack' # stack

\* C21: every registered worker's send callback is route_message, and every
\* message a worker sends passes through route_message exactly once, stamped
\* with the sending worker's identifier, before any worker receives it.
C21_SentThroughRouteMessage ==
    [][/\ \A b \in Bees : (\E i \in 1..Len(worker_bees') : worker_bees'[i] = b)
                             => bees'[b].on_message_send = "route_message"
       /\ Sends =>
            LET b == Top.bee
                m == [Top.response EXCEPT !.sender = b]
            IN  /\ routed'.n = routed.n + 1
                /\ routed'.message = m
                /\ m.sender = b
                /\ \A w \in Bees :
                      bees'[w].messages_received # bees[w].messages_received
                          => /\ routed'.to = <<w>>
                             /\ stack'[Len(stack')].message = m
                             /\ stack'[Len(stack')].bee = w]_vars
\* A worker's result, stamped and routed, received by the worker it names
C21_Witness ==
    /\ Len(stack) = 2
    /\ stack[1].at = "sent"
    /\ stack[1].response = routed.message
    /\ routed.message.sender = stack[1].bee
    /\ routed.message.receiver = stack[2].bee
    /\ stack[2].message = routed.message
    /\ routed.n = 2
    /\ bees[stack[2].bee].messages_received >= 1

\* Worker b's process_message has a branch for message m
Recognized(b, m) == m.msg_type = "task" /\ m.content.type = HandledTask[b]
\* process_message of the innermost receive_message call ends in this step
Handles == stack # <<>> /\ Top.at = "process" /\ stack' # stack

\* C31: a received message whose kind is not task, or a task of a type the
\* worker does not handle, yields no response and no error: nothing is sent,
\* tasks_completed and tasks_failed are unchanged, messages_received has grown
\* by one and the worker returns to idle.
C31_UnrecognizedIgnored ==
    [][(Handles /\ ~Recognized(Top.bee, Top.message)) =>
        LET b == Top.bee
        IN  /\ stack' = Popped
            /\ route'.status # "raised"
            /\ routed' = routed
            /\ bees'[b].messages_sent = bees[b].messages_sent
            /\ bees'[b].tasks_completed = Top.before.tasks_completed
            /\ bees'[b].tasks_failed = Top.before.tasks_failed
            /\ bees'[b].messages_received = Top.before.messages_received + 1
            /\ bees'[b].state = "idle"]_vars
\* A task of the other worker's type, or a message that is no task, received
\* and dropped by a worker that is idle again
C31_Witness ==
    /\ routed.n = 1
    /\ routed.to # <<>>
    /\ ~Recognized(routed.to[1], routed.message)
    /\ stack = <<>>
    /\ route.status = "returned"
    /\ bees[routed.to[1]].messages_received = 1
    /\ bees[routed.to[1]].messages_sent = 0
    /\ bees[routed.to[1]].state = "idle"

\* C38: every recognized task whose handling returns increments exactly one of
\* tasks_completed and tasks_failed by exactly one, tasks_completed exactly when
\* the result sent back has success=true and tasks_failed exactly when it has
\* success=false, and the result message is addressed to the task's sender.
C38_TaskCountedOnce ==
    [][(Handles /\ Recognized(Top.bee, Top.message) /\ route'.status # "raised") =>
        LET b == Top.bee
            result == stack'[Len(stack')].response
            completed == bees'[b].tasks_completed - bees[b].tasks_completed
            failed == bees'[b].tasks_failed - bees[b].tasks_failed
        IN  /\ Len(stack') = Len(stack)
            /\ stack'[Len(stack')].at = "send"
            /\ completed \in {0, 1} /\ failed \in {0, 1}
            /\ completed + failed = 1
            /\ completed = 1 <=> result.content.success
            /\ failed = 1 <=> ~result.content.success
            /\ result.msg_type = "result"
            /\ result.receiver = Top.message.sender]_vars
\* A task sent by a worker has failed, and its result goes back to that worker
C38_Witness ==
    /\ Len(stack) = 1
    /\ Top.at = "send"
    /\ Recognized(Top.bee, Top.message)
    /\ ~Top.response.content.success
    /\ Top.response.receiver = Top.message.sender
    /\ Top.message.sender \in Bees \ {Top.bee}
    /\ bees[Top.bee].tasks_failed = 1
    /\ bees[Top.bee].tasks_completed = 0

\* How far a route_message call is from its end: every step of the calls it
\* awaits brings it nearer
Rank(st) ==
    IF st = <<>> THEN 0
    ELSE LET top == st[Len(st)]
         IN  IF top.at = "process" THEN (IF Len(st) = 1 THEN 5 ELSE 3)
             ELSE IF top.at = "send" THEN 4
             ELSE 1

\* C39: routing always terminates: a routed task triggers at most one result
\* message and a routed result no further message, so a route_message call
\* causes at most two deliveries and ends, whatever the sender and receiver
\* are (a worker addressing itself included).
C39_RoutingTerminates ==
    [][(stack # <<>> /\ stack' # stack) =>
        /\ Rank(stack') < Rank(stack)
        /\ Len(stack') <= 2
        /\ Len(stack') > Len(stack) =>
              /\ Len(stack) = 1
              /\ stack[1].message.msg_type = "task"
              /\ stack'[2].message.msg_type = "result"
              /\ stack'[2].message = stack'[1].response
              /\ routed'.n = routed.n + 1]_vars
\* A worker's task to itself: two deliveries to that worker, and the call is over
C39_Witness ==
    /\ stack = <<>>
    /\ route.status = "returned"
    /\ route.calls = 1
    /\ routed.n = 2
    /\ routed.message.msg_type = "result"
    /\ routed.message.sender = routed.message.receiver
    /\ routed.to = <<routed.message.sender>>
    /\ bees[routed.message.sender].messages_received = 2
    /\ bees[routed.message.sender].state = "idle"

-----------------------------------------------------------------------------
(* Properties of the workflows *)

\* An execute_workflow call returns in this step
Returning == workflow'.returned # workflow.returned
\* A route_message call of the run in progress has raised
RunRaised == workflow.pc # "idle" /\ route.status = "raised"
\* No worker counted a failed task, and none raised, in the run that returns
NoStepFailed ==
    /\ ~RunRaised
    /\ \A b \in Bees : bees[b].tasks_failed = workflow'.before[b].tasks_failed

\* C22: with a worker of each role registered and no worker failing its task,
\* execute_workflow("full_ad_campaign") returns success=true, lists the analysis
\* worker and then the campaign worker, and carries an elapsed duration >= 0.
C22_CampaignSucceeds ==
    [][(/\ Returning
        /\ workflow'.type = "full_ad_campaign"
        /\ {AgentRole[b] : b \in Registered} = {"shopper_bee", "ad_bee"}
        /\ NoStepFailed) =>
            LET result == workflow'.result
            IN  /\ result.success
                /\ Len(result.bees_involved) = 2
                /\ result.bees_involved[1] \in Registered
                /\ result.bees_involved[2] \in Registered
                /\ AgentRole[result.bees_involved[1]] = "shopper_bee"
                /\ AgentRole[result.bees_involved[2]] = "ad_bee"
                /\ result.has_execution_time
                /\ result.execution_time >= 0
                /\ result.execution_time = clock' - workflow.start_time]_vars
C22_Witness ==
    /\ workflow.returned = 1
    /\ workflow.pc = "idle"
    /\ workflow.result.success
    /\ workflow.result.bees_involved = <<Shopper, AdBee>>
    /\ workflow.result.execution_time > 2 * WaitTime
    /\ queen.workflows_completed = 1
    /\ \A b \in {Shopper, AdBee} : bees[b].tasks_completed = 1 /\ bees[b].state = "idle"

\* The run that returns was a full_ad_campaign with only worker b registered
OnlyRegistered(b) ==
    /\ Returning
    /\ workflow'.type = "full_ad_campaign"
    /\ Registered = {b}
\* No task was routed to worker b in the run that returns
NothingRoutedTo(b) ==
    /\ routed' = routed
    /\ bees'[b] = workflow'.before[b]
    /\ \A i \in 1..Len(workflow'.log) : workflow'.log[i] # "task " \o b

\* C23 as stated: with only one of the two roles registered, execute_workflow
\* returns success=false with an error naming the missing role as not found,
\* and routes no task for the missing step.
C23_MissingRoleNamed ==
    [][/\ OnlyRegistered(AdBee) =>
            /\ ~workflow'.result.success
            /\ workflow'.result.error = "Shopper bee not found"
            /\ NothingRoutedTo(Shopper)
       /\ OnlyRegistered(Shopper) =>
            /\ ~workflow'.result.success
            /\ workflow'.result.error = "Ad bee not found"
            /\ NothingRoutedTo(AdBee)]_vars

\* C23 as amended: with only one of the two roles registered, execute_workflow
\* returns success=false and routes no task for the missing step; the error
\* names the missing role as not found, except that with the campaign worker
\* missing a failed or raising analysis step is reported instead.
C23_MissingRoleOrEarlierFailure ==
    [][/\ OnlyRegistered(AdBee) =>
            /\ ~workflow'.result.success
            /\ workflow'.result.error = "Shopper bee not found"
            /\ workflow'.log = <<"return">>
            /\ NothingRoutedTo(Shopper) /\ NothingRoutedTo(AdBee)
       /\ OnlyRegistered(Shopper) =>
            /\ ~workflow'.result.success
            /\ workflow'.result.error =
                  (IF RunRaised THEN workflow'.result.error
                   ELSE IF bees[Shopper].tasks_completed = 0 THEN "Shopper analysis failed"
                   ELSE "Ad bee not found")
            /\ RunRaised => workflow'.result.error \in HandlerFaults
            /\ NothingRoutedTo(AdBee)]_vars
C23_Witness ==
    /\ Registered = {Shopper}
    /\ workflow.returned = 1
    /\ workflow.pc = "idle"
    /\ workflow.result.error = "Ad bee not found"
    /\ bees[Shopper].tasks_completed = 1
    /\ bees[AdBee].messages_received = 0
    /\ queen.workflows_failed = 1

\* The workflow leaves the wait after a step whose worker is b, not having
\* counted a completed task during the step
StepNotAdvanced(at, b) ==
    /\ workflow.pc = at
    /\ workflow'.pc # at
    /\ route.status # "raised"
    /\ bees[b].tasks_completed = workflow.before[b].tasks_completed

\* C24: in every run, the first and the later ones, a step whose worker did not
\* advance its completed-task counter makes the run return success=false with
\* an error, and the following step's task is not routed.
C24_StepNotAdvancedFails ==
    [][/\ StepNotAdvanced("step1", workflow.shopper) =>
            /\ Returning
            /\ ~workflow'.result.success
            /\ workflow'.result.error \notin {"", None}
            /\ routed' = routed
       /\ StepNotAdvanced("step2", workflow.ad) =>
            /\ Returning
            /\ ~workflow'.result.success
            /\ workflow'.result.error \notin {"", None}]_vars

\* The campaign task is routed in this step
RoutesCampaign == Routes /\ routed'.message.content.type = "create_campaign"
\* How many times the event e stands in the log l
Count(l, e) == Cardinality({i \in 1..Len(l) : l[i] = e})

\* C25: in every run the campaign worker receives its task only after the
\* analysis worker's receive_message has returned and the analysis step was
\* judged complete; the run returns only after the campaign step resolved; and
\* each worker receives at most one task from the dispatcher in a run.
C25_StepsInOrder ==
    [][/\ RoutesCampaign =>
            /\ stack = <<>>
            /\ route.status = "returned"
            /\ bees[workflow.shopper].state = "idle"
            /\ bees[workflow.shopper].messages_received
                  = workflow.before[workflow.shopper].messages_received + 1
            /\ bees[workflow.shopper].tasks_completed # 0
            /\ workflow'.log = <<"task " \o workflow.shopper, "judged " \o workflow.shopper,
                                 "task " \o workflow'.ad>>
            /\ stack' = <<Frame(workflow'.ad, routed'.message)>>
            /\ AgentRole[workflow'.ad] = "ad_bee"
       /\ Returning =>
            /\ stack = <<>>
            /\ route.status \in {"none", "returned", "raised"}
            /\ (workflow'.ad # None /\ ~RunRaised)
                  => /\ bees[workflow'.ad].state = "idle"
                     /\ workflow'.log[Len(workflow'.log) - 1] = "judged " \o workflow'.ad
       /\ \A b \in Bees :
            /\ Count(workflow'.log, "task " \o b) <= 1
            /\ workflow'.pc # "idle" =>
                  bees'[b].messages_received
                      = workflow'.before[b].messages_received
                          + Count(workflow'.log, "task " \o b)]_vars
\* The second run's campaign task, received after the analysis step
C25_Witness ==
    /\ workflow.calls = 2
    /\ workflow.pc = "step2"
    /\ Len(stack) = 1
    /\ stack[1].bee = AdBee
    /\ stack[1].message.content.type = "create_campaign"
    /\ bees[Shopper].state = "idle"
    /\ bees[AdBee].state = "thinking"
    /\ workflow.log = <<"task " \o Shopper, "judged " \o Shopper, "task " \o AdBee>>

\* C26: the campaign task carries, as its shopper_analysis, the analysis the
\* analysis worker produced in the same run (the result it sent last).
C26_CampaignCarriesAnalysis ==
    [][(/\ RoutesCampaign
        /\ routed.message.msg_type = "result"
        /\ routed.message.sender = workflow.shopper
        /\ routed.message.content.success)
            => routed'.message.content.analysis = routed.message.content.analysis]_vars

\* C27: every execute_workflow call is finalized exactly once: its return adds
\* one to exactly one of workflows_completed and workflows_failed, to
\* workflows_completed exactly when the result has success=true, and no other
\* step changes them; their sum is the number of calls that have returned.
C27_FinalizedOnce ==
    [][/\ Returning =>
            /\ workflow'.returned = workflow.returned + 1
            /\ IF workflow'.result.success
               THEN queen' = [queen EXCEPT !.workflows_completed = @ + 1]
               ELSE queen' = [queen EXCEPT !.workflows_failed = @ + 1]
       /\ ~Returning => queen' = queen
       /\ queen'.workflows_completed + queen'.workflows_failed = workflow'.returned]_vars
C27_Witness ==
    /\ workflow.returned = 2
    /\ queen = [workflows_completed |-> 1, workflows_failed |-> 1]
    /\ workflow.result.error \in HandlerFaults
    /\ workflow.pc = "idle"

\* C28: every result execute_workflow returns carries a workflow identifier and
\* an elapsed duration, on the success path, on every failure path and when a
\* worker's handler raised.
C28_ResultStamped ==
    [][Returning =>
        /\ workflow'.result.workflow_id = workflow_id(workflow'.start_time)
        /\ workflow'.result.has_execution_time]_vars

\* C29: execute_workflow never raises: every call ends with a result that has
\* a success flag, also when a worker's handler raised; every fault gives
\* success=false with an error description.
C29_WorkflowNeverRaises ==
    [][/\ (RunRaised /\ workflow' # workflow) => Returning
       /\ Returning =>
            /\ workflow'.pc = "idle"
            /\ workflow'.result.success \in BOOLEAN
            /\ workflow'.result.success =>
                  /\ ~RunRaised
                  /\ workflow'.result.error = None
                  /\ workflow'.type = "full_ad_campaign"
            /\ ~workflow'.result.success => workflow'.result.error \notin {"", None}
            /\ RunRaised => workflow'.result.error \in HandlerFaults]_vars
\* The campaign worker's handler raised, and the run returned a failure
C29_Witness ==
    /\ workflow.pc = "idle"
    /\ workflow.returned = 1
    /\ route.status = "raised"
    /\ ~workflow.result.success
    /\ workflow.result.error \in HandlerFaults
    /\ bees[AdBee].state = "thinking"
    /\ bees[Shopper].tasks_completed = 1

\* The workflow tests the counter of worker b after the wait that follows the
\* step at
Inspects(at, b) == workflow.pc = at /\ workflow'.pc # at /\ ~RunRaised /\ b # None

\* C30 as stated: when the provider call of a step's worker takes longer than
\* the fixed wait, the workflow tests that worker's counter before the worker
\* has finished the step.
C30_InspectsBeforeFinished ==
    [][\A at \in {"step1", "step2"} :
        LET b == IF at = "step1" THEN workflow.shopper ELSE workflow.ad
        IN  (Inspects(at, b) /\ workflow.slow) =>
                \/ stack # <<>>
                \/ bees[b].state # "idle"]_vars

\* C30 as amended: however long the provider call of a step's worker takes, the
\* workflow tests that worker's counter only after the worker's
\* receive_message has returned; the fixed wait only adds to the elapsed time.
C30_InspectsAfterFinished ==
    [][\A at \in {"step1", "step2"} :
        LET b == IF at = "step1" THEN workflow.shopper ELSE workflow.ad
        IN  Inspects(at, b) =>
                /\ stack = <<>>
                /\ route.status = "returned"
                /\ bees[b].state = "idle"
                /\ bees[b].messages_received = workflow.before[b].messages_received + 1
                /\ bees'[b] = bees[b] \/ (at = "step1" /\ b = workflow'.ad)
                /\ clock' = clock + WaitTime]_vars
\* The analysis took longer than the wait, and was judged after it had ended
C30_Witness ==
    /\ workflow.pc = "step2"
    /\ workflow.calls = 1
    /\ clock - workflow.start_time > 2 * WaitTime
    /\ bees[Shopper].state = "idle"
    /\ bees[Shopper].tasks_completed = 1
    /\ workflow.log = <<"task " \o Shopper, "judged " \o Shopper, "task " \o AdBee>>

\* The workflow hands a step's task to route_message in this step
RoutesTask == Routes /\ routed'.message.msg_type = "task" /\ routed'.message.sender = Queen
\* The workers of a role, and when worker b was registered
OfRole(role) == {b \in Registered : AgentRole[b] = role}
Position(b) == CHOOSE i \in 1..Len(worker_bees) : worker_bees[i] = b

\* C33: when several registered workers share a required role, each workflow
\* step's task is delivered only to the earliest-registered worker of that
\* role, the same one in every run, and no other worker of that role receives
\* a task.
C33_EarliestOfRoleTasked ==
    [][RoutesTask =>
        LET m == routed'.message
            role == IF m.content.type = "analyze_user" THEN "shopper_bee" ELSE "ad_bee"
        IN  \E b \in OfRole(role) :
                /\ \A w \in OfRole(role) : Position(b) <= Position(w)
                /\ m.receiver = b
                /\ routed'.to = <<b>>
                /\ stack' = <<Frame(b, m)>>
                /\ bees'[b].messages_received = bees[b].messages_received + 1
                /\ \A w \in Bees \ {b} : bees'[w] = bees[w]
                /\ (role = "shopper_bee" /\ workflow.shopper # None) => b = workflow.shopper
                /\ (role = "ad_bee" /\ workflow.ad # None) => b = workflow.ad]_vars
\* Two runs on two analysis workers, the second registered first: it got both
\* tasks and the other none
C33_Witness ==
    /\ Cardinality(OfRole("shopper_bee")) = 2
    /\ worker_bees[1] = Shopper2
    /\ workflow.returned = 2
    /\ workflow.pc = "idle"
    /\ workflow.shopper = Shopper2
    /\ bees[Shopper2].messages_received = 2
    /\ bees[Shopper].messages_received = 0

\* A receive_message call is in progress on worker b
Receiving(b) == \E i \in 1..Len(stack) : stack[i].bee = b

\* C34: whenever no receive_message call is in progress on a worker, that
\* worker's state is idle, also after a handler raised during receive and
\* after every execute_workflow call has returned.
C34_IdleWhenNotReceiving ==
    \A b \in Bees : ~Receiving(b) => bees[b].state = "idle"

\* C40: workflow identifiers are unique: an execute_workflow call returns a
\* result whose workflow identifier differs from that of the call before it on
\* the same dispatcher, also when both start within the same clock second.
C40_WorkflowIdsUnique ==
    [][(Returning /\ workflow.returned >= 1) =>
        workflow'.result.workflow_id # workflow.result.workflow_id]_vars

-----------------------------------------------------------------------------
(* Properties of chat *)

\* chat issues its provider request in this step
ChatRequests == chat.pc = "idle" /\ chat'.pc = "generating"
\* chat returns in this step
ChatReturns == chat'.returned # chat.returned /\ chat'.response.kind = "response"
\* The turns of session s in cs
TurnsOf(cs, s) == IF s = None THEN <<>> ELSE cs[s].turns

\* C32: the request issued to the provider for a session includes the earlier
\* turns stored for that session, and a chat call appends the user turn and
\* the assistant turn to the session's history exactly when the response
\* succeeded.
C32_ChatKeepsContext ==
    [][/\ ChatRequests =>
            LET earlier == get_context_messages(TurnsOf(conversations, chat'.session))
            IN  \A i \in 1..Len(earlier) :
                    \E k \in 1..Len(chat'.request) : chat'.request[k] = earlier[i]
       /\ ChatReturns =>
            LET s == chat'.session
                before == TurnsOf(conversations, s)
                after == TurnsOf(conversations', s)
                response == chat'.response.response
            IN  IF response.success
                THEN after = add_turn(add_turn(before, "user", chat'.prompt),
                                      "assistant", response.content)
                ELSE after = before]_vars

====
